---- MODULE Spec2Model ----
(***************************************************************************)
(* Job lifecycle of src/main/service/video.js: makeVideo (submit),         *)
(* synthesisVideo (synthesize), loopPending / synthesisNext (the polling   *)
(* scheduler), with the record store (dao/video.js) as a keyed map and     *)
(* every remote call as an in-flight record resolved by a later step.      *)
(*                                                                         *)
(* One step of the model is one run-to-completion slice of the JavaScript  *)
(* event loop: the code from a timer callback, or from the resolution of   *)
(* an awaited call, up to the next await or return.                        *)
(***************************************************************************)
EXTENDS Integers, Sequences, FiniteSets, TLC

\* ---------------------------------------------------------------- bounds
NumJobs == 2
MaxSubmits == 2
MaxLen == 3
MaxUploads == 1
NumVideos == 2
MaxCalls == 3

JobIds == 1..NumJobs

\* ------------------------------------------------------- program constants
\* result.code / statusRes.code of an accepted request (video.js:194, 239)
CodeAccepted == 10000
\* the codes that fail the polled job (video.js:237)
CodesRejected == {9999, 10002, 10003}
\* a statusRes.code / result.code outside those tested at video.js:194, 237, 239
CodeOther == 10004
\* duration in development mode (video.js:251)
DevDuration == 88
\* a duration resolved by getVideoDuration (video.js:254)
ProbedDuration == 5

\* statusRes.data.status (video.js:240, 247, 266)
StatusProcessing == 1
StatusDone == 2
StatusFailed == 3
\* a statusRes.data.status outside those tested at video.js:240-266
StatusOther == 4

\* values of the text fields
Null == "null"
MsgSubmitting == "submitting"      \* video.js:154
MsgResult == "result"              \* video.js:199 (the whole result object)
MsgResultMsg == "result.msg"       \* video.js:209
MsgError == "error.message"        \* video.js:217
MsgStatus == "statusRes.msg"       \* video.js:238
MsgData == "statusRes.data.msg"    \* video.js:244, 260, 267
ProgressData == "statusRes.data.progress"
ResultPath == "out/abc.mp4"        \* statusRes.data.result
ExplicitAudio == "temp/in.wav"     \* audio_path stored by saveVideo
UploadedAudio == "audio/gen.wav"   \* uploadResult.remotePath (voice.js:131)
LocalAudio == "gen.wav"            \* `${uuid}.wav` (voice.js:127)
TestAudio == "test.wav"            \* the audio asset of development mode (video.js:186)

Terminal == {"success", "failed"}

VARIABLES
  jobs,         \* record store: id -> video row
  isDev,        \* process.env.NODE_ENV === 'development'
  synths,       \* synthesisVideo calls suspended at an await
  ncalls,       \* synthesisVideo calls started so far; call n draws uuid n
  timers,       \* outstanding setTimeout(loopPending, 2000) timers
  polls,        \* loopPending invocations suspended at an await
  changed,      \* jobs whose status the scheduler changed since the last cycle start
  sent,         \* the codes of the makeVideoApi requests made so far
  queue,        \* the waiting jobs in the order in which they became waiting
  xfer,         \* the uploadFile or downloadFile call of the file-transfer client
  srv,          \* the file server: its files, its last request and response
  ipc,          \* the records and local files the ipc handlers work on, and their calls
  act           \* the step just taken

schedulerVars == <<jobs, isDev, synths, ncalls, timers, polls, changed, sent, queue, act>>

vars == <<jobs, isDev, synths, ncalls, timers, polls, changed, sent, queue, act, xfer, srv, ipc>>

\* ------------------------------------------------------------ record store

\* dao/video.js update(partialRecord): assigns the fields present in rec
update(js, id, rec) ==
  [js EXCEPT ![id] = [f \in DOMAIN @ |-> IF f \in DOMAIN rec THEN rec[f] ELSE @[f]]]

\* dao/video.js updateStatus(id, status, message, progress?)
updateStatus(js, id, status, message, progress) ==
  IF progress = Null
    THEN update(js, id, [status |-> status, message |-> message])
    ELSE update(js, id, [status |-> status, message |-> message, progress |-> progress])

\* dao/video.js findFirstByStatus(status): oldest row with that status, 0 if none
findFirstByStatus(js, status) ==
  IF \E j \in JobIds : js[j].status = status
    THEN CHOOSE j \in JobIds : js[j].status = status
                               /\ \A k \in JobIds : js[k].status = status => j <= k
    ELSE 0

StatusChanged(js, js2) == {j \in JobIds : js[j].status # js2[j].status}

Step(name, id, rc, ds) == [name |-> name, id |-> id, rc |-> rc, ds |-> ds]

Waiting == {j \in JobIds : jobs[j].status = "waiting"}

\* the jobs of q that are still waiting in js2, in their order
StillWaiting(q, js2) == SelectSeq(q, LAMBDA j : js2[j].status = "waiting")

\* 1 if the promise of the synthesisVideo call with outcome r is rejected
Rejected(r) == IF r.rejected THEN 1 ELSE 0

\* the codes of the makeVideoApi requests among the call records in call
Requested(call) == {c.code : c \in {d \in call : d.stage = "video"}}

\* no call of the file-transfer client is under way
NoCall == [call |-> "none"]

\* the file server is not under consideration
NoServer == [impl |-> "none"]

\* no ipc handler is under consideration
NoIpc == [handlers |-> "none"]

\* ------------------------------------------------------------------- Init
\* every job was stored by saveVideo (video.js:134) as a draft, with or
\* without an explicit audio_path
Init ==
  /\ jobs \in [JobIds -> [status : {"draft"}, file_path : {Null}, message : {Null},
                          progress : {Null}, code : {0}, duration : {0},
                          audio_path : {Null, ExplicitAudio}]]
  /\ isDev \in BOOLEAN
  /\ synths = {}
  /\ ncalls = 0
  /\ timers = 1
  /\ polls = <<>>
  /\ changed = {}
  /\ sent = {}
  /\ queue = <<>>
  /\ act = Step("init", 0, 0, 0)
  /\ xfer = NoCall
  /\ srv = NoServer
  /\ ipc = NoIpc

\* makeVideo that submits drafts only
makeVideoDraftOnly(videoId) ==
  /\ videoId \in Waiting \/ ncalls + Cardinality(Waiting) < MaxSubmits
  /\ jobs' = IF jobs[videoId].status = "draft"
               THEN update(jobs, videoId, [status |-> "waiting"])
               ELSE jobs
  /\ act' = Step("makeVideo", videoId, 0, 0)
  /\ queue' = IF jobs'[videoId].status = "waiting" /\ videoId \notin Waiting
                 THEN Append(queue, videoId) ELSE queue
  /\ UNCHANGED <<isDev, synths, ncalls, timers, polls, changed, sent, xfer, srv, ipc>>

\* --------------------------------------------------------------- makeVideo
\* video.js:143-146
makeVideo(videoId) ==
  /\ videoId \in Waiting \/ ncalls + Cardinality(Waiting) < MaxSubmits
  /\ jobs' = update(jobs, videoId, [status |-> "waiting"])
  /\ act' = Step("makeVideo", videoId, 0, 0)
  /\ queue' = IF videoId \in Waiting THEN queue ELSE Append(queue, videoId)
  /\ UNCHANGED <<isDev, synths, ncalls, timers, polls, changed, sent, xfer, srv, ipc>>

\* ---------------------------------------------------------- synthesisVideo
\* the catch block without its updateStatus
SynthFailedNoWrite(js, id) ==
  [jobs |-> js, call |-> {}, rejected |-> FALSE]

\* the catch block rethrowing instead of recording the failure
SynthFailedRethrows(js, id) ==
  [jobs |-> js, call |-> {}, rejected |-> TRUE]

\* video.js:215-222, the catch block: the failure is recorded on the job and
\* the call returns videoId with no await left; its promise is not rejected
SynthFailed(js, id) ==
  [jobs |-> updateStatus(js, id, "failed", MsgError, Null), call |-> {}, rejected |-> FALSE]

\* video.js:369-379 makeVideoByF2F up to `await makeVideoApi(param)`: the
\* fields of param that depend on the call (video_url, chaofen,
\* watermark_switch and pn are left out); uuid is crypto.randomUUID()
makeVideoByF2F(audioPath, uuid) ==
  [audio_url |-> audioPath, code |-> uuid]

\* a request that reuses the code the job already carries
VideoRequestSameCode(js, id, cid, audioPath, modelFound, dev) ==
  IF ~dev /\ ~modelFound
    THEN SynthFailed(js, id)
    ELSE LET param == makeVideoByF2F(IF dev THEN TestAudio ELSE audioPath,
                                     IF js[id].code # 0 THEN js[id].code ELSE cid)
         IN [jobs |-> js,
             call |-> {[cid |-> cid, id |-> id, stage |-> "video", audioPath |-> audioPath,
                        audio_url |-> param.audio_url, code |-> param.code]}, rejected |-> FALSE]

\* video.js:183-189: the request is made with the test assets in development
\* mode, with the resolved audio path and the model's video otherwise.  The
\* uuid drawn at video.js:370 by call cid is cid.
VideoRequest(js, id, cid, audioPath, modelFound, dev) ==
  IF ~dev /\ ~modelFound
    THEN SynthFailed(js, id)       \* model.video_path on undefined
    ELSE LET param == makeVideoByF2F(IF dev THEN TestAudio ELSE audioPath, cid)
         IN [jobs |-> js,
             call |-> {[cid |-> cid, id |-> id, stage |-> "video", audioPath |-> audioPath,
                        audio_url |-> param.audio_url, code |-> param.code]}, rejected |-> FALSE]

\* synthesisVideo that makes the request without awaiting makeAudio4Video
SynthStartNoTts(js, id, cid, modelFound, voiceFound, dev) ==
  LET js1 == update(js, id, [file_path |-> Null, status |-> "pending",
                             message |-> MsgSubmitting])
      video == js1[id]
  IN IF video.audio_path # Null
       THEN VideoRequest(js1, id, cid, video.audio_path, modelFound, dev)
       ELSE IF ~voiceFound
              THEN SynthFailed(js1, id)
              ELSE VideoRequest(js1, id, cid, LocalAudio, modelFound, dev)

\* synthesisVideo that synthesizes speech whether or not the job has audio_path
SynthStartAlwaysTts(js, id, cid, modelFound, voiceFound, dev) ==
  LET js1 == update(js, id, [file_path |-> Null, status |-> "pending",
                             message |-> MsgSubmitting])
  IN IF ~voiceFound
       THEN SynthFailed(js1, id)
       ELSE [jobs |-> js1,
             call |-> {[cid |-> cid, id |-> id, stage |-> "tts", audioPath |-> Null,
                        audio_url |-> Null, code |-> 0]}, rejected |-> FALSE]

\* video.js:149-180 with voice.js:60-117: up to the first await.  voiceFound is
\* the outcome of selectVoiceByID(video.voice_id || model.voice_id) and of
\* the reads of voice.id and voice.asr_format_audio_url that follow it;
\* modelFound is the outcome of selectF2FModelByID (video.js:162), drawn where
\* the code first dereferences the model (video.js:188).
SynthStart(js, id, cid, modelFound, voiceFound, dev) ==
  LET js1 == update(js, id, [file_path |-> Null, status |-> "pending",
                             message |-> MsgSubmitting])
      video == js1[id]
  IN IF video.audio_path # Null
       THEN VideoRequest(js1, id, cid, video.audio_path, modelFound, dev)
       ELSE IF ~voiceFound
              THEN SynthFailed(js1, id)
              ELSE [jobs |-> js1,
                    call |-> {[cid |-> cid, id |-> id, stage |-> "tts", audioPath |-> Null,
                               audio_url |-> Null, code |-> 0]}, rejected |-> FALSE]

\* voice.js:102-123: makeAudioApi resolved, the file is written, uploadFile is awaited
TtsDone(c) ==
  /\ c \in synths /\ c.stage = "tts"
  /\ synths' = (synths \ {c}) \cup {[c EXCEPT !.stage = "upload"]}
  /\ act' = Step("TtsDone", c.id, 0, 0)
  /\ UNCHANGED <<jobs, isDev, ncalls, timers, polls, changed, sent, queue, xfer, srv, ipc>>

\* voice.js:132-135 rethrows, video.js:215-218 catches
TtsThrew(c) ==
  /\ c \in synths /\ c.stage = "tts"
  /\ LET r == SynthFailed(jobs, c.id)
     IN /\ jobs' = r.jobs
        /\ changed' = changed \cup StatusChanged(jobs, r.jobs)
        /\ act' = Step("TtsThrew", c.id, 0, Rejected(r))
  /\ synths' = synths \ {c}
  /\ queue' = StillWaiting(queue, jobs')
  /\ UNCHANGED <<isDev, ncalls, timers, polls, sent, xfer, srv, ipc>>

\* makeAudio without the upload's remote path: the local file name always
makeAudioLocal(success) == LocalAudio

\* voice.js:123-131: what makeAudio returns once uploadFile returned
makeAudio(success) == IF success THEN UploadedAudio ELSE LocalAudio

\* voice.js:123-131: uploadFile resolved ({success} or not; it never throws),
\* then video.js:183-189.  The step records success as rc 1, failure as rc 0.
UploadDone(c, success, modelFound) ==
  /\ c \in synths /\ c.stage = "upload"
  /\ LET audioPath == makeAudio(success)
         r == VideoRequest(jobs, c.id, c.cid, audioPath, modelFound, isDev)
     IN /\ jobs' = r.jobs
        /\ synths' = (synths \ {c}) \cup r.call
        /\ changed' = changed \cup StatusChanged(jobs, r.jobs)
        /\ sent' = sent \cup Requested(r.call)
        /\ act' = Step("UploadDone", c.id, IF success THEN 1 ELSE 0, Rejected(r))
  /\ queue' = StillWaiting(queue, jobs')
  /\ UNCHANGED <<isDev, ncalls, timers, polls, xfer, srv, ipc>>

\* the failure branch written with updateStatus, as the catch block does
SynthResultNoParam(js, c, rc) ==
  IF CodeAccepted = rc
    THEN update(js, c.id, [file_path |-> Null, status |-> "pending", message |-> MsgResult,
                           audio_path |-> c.audioPath, code |-> c.code])
    ELSE updateStatus(js, c.id, "failed", MsgResultMsg, Null)

\* video.js:193-214: the two writes after makeVideoApi returned result;
\* c.code is param.code
SynthResult(js, c, rc) ==
  IF CodeAccepted = rc
    THEN update(js, c.id, [file_path |-> Null, status |-> "pending", message |-> MsgResult,
                           audio_path |-> c.audioPath, code |-> c.code])
    ELSE update(js, c.id, [file_path |-> Null, status |-> "failed", message |-> MsgResultMsg,
                           audio_path |-> c.audioPath, code |-> c.code])

\* makeVideoApi resolved with {code: rc, msg}
VideoDone(c, rc) ==
  /\ c \in synths /\ c.stage = "video"
  /\ jobs' = SynthResult(jobs, c, rc)
  /\ changed' = changed \cup StatusChanged(jobs, jobs')
  /\ synths' = synths \ {c}
  /\ act' = Step("VideoDone", c.id, rc, 0)
  /\ queue' = StillWaiting(queue, jobs')
  /\ UNCHANGED <<isDev, ncalls, timers, polls, sent, xfer, srv, ipc>>

\* makeVideoApi rejected: video.js:215-218
VideoThrew(c) ==
  /\ c \in synths /\ c.stage = "video"
  /\ LET r == SynthFailed(jobs, c.id)
     IN /\ jobs' = r.jobs
        /\ changed' = changed \cup StatusChanged(jobs, r.jobs)
        /\ act' = Step("VideoThrew", c.id, 0, Rejected(r))
  /\ synths' = synths \ {c}
  /\ queue' = StillWaiting(queue, jobs')
  /\ UNCHANGED <<isDev, ncalls, timers, polls, sent, xfer, srv, ipc>>

\* ------------------------------------------------------------- loopPending
\* a re-arm before the await as well as after it
RearmTwice(t) == t + 2

\* video.js:229-231 and 271-273: setTimeout(() => loopPending(), 2000)
Rearm(t) == t + 1

\* the cycle polling a job found by the wrong status
PendingVideoFailed(js) == findFirstByStatus(js, "failed")

\* video.js:225: the job this cycle polls, 0 if none
PendingVideo(js) == findFirstByStatus(js, "pending")

\* synthesisNext that hands over the newest waiting job
synthesisNextNewest(js) ==
  IF \E j \in JobIds : js[j].status = "waiting"
    THEN CHOOSE j \in JobIds : js[j].status = "waiting"
                               /\ \A k \in JobIds : js[k].status = "waiting" => k <= j
    ELSE 0

\* video.js:280-286 synthesisNext: the job handed to synthesisVideo, 0 if none
synthesisNext(js) == findFirstByStatus(js, "waiting")

\* video.js:224-235: a timer fires and the cycle runs to its first await or
\* to its return
loopPending ==
  /\ timers > 0
  /\ LET video == PendingVideo(jobs)
         term == {j \in JobIds : jobs[j].status \in Terminal}
     IN IF video = 0
          THEN LET next == synthesisNext(jobs)
               IN IF next = 0
                    THEN /\ timers' = Rearm(timers - 1)
                         /\ changed' = {}
                         /\ act' = Step("loopPending", 0, 0, 0)
                         /\ UNCHANGED <<jobs, synths, ncalls, polls, sent>>
                    ELSE \E modelFound \in BOOLEAN, voiceFound \in BOOLEAN :
                           LET r == SynthStart(jobs, next, ncalls + 1, modelFound,
                                               voiceFound, isDev)
                           IN /\ jobs' = r.jobs
                              /\ synths' = synths \cup r.call
                              /\ ncalls' = ncalls + 1
                              /\ timers' = Rearm(timers - 1)
                              /\ changed' = StatusChanged(jobs, r.jobs)
                              /\ act' = Step("synthesisNext", next, 0, Rejected(r))
                              /\ sent' = sent \cup Requested(r.call)
                              /\ UNCHANGED polls
          ELSE /\ timers' = timers - 1
               /\ polls' = Append(polls, [id |-> video, code |-> jobs[video].code,
                                          stage |-> "status", term |-> term])
               /\ changed' = {}
               /\ act' = Step("getVideoStatus", video, 0, 0)
               /\ UNCHANGED <<jobs, synths, ncalls, sent>>
  /\ queue' = StillWaiting(queue, jobs')
  /\ UNCHANGED <<isDev, xfer, srv, ipc>>

Remove(s, i) == SubSeq(s, 1, i - 1) \o SubSeq(s, i + 1, Len(s))

\* the status table with 10003 missing from the list and data.status 3 unhandled
StatusWriteShort(js, id, rc, ds) ==
  IF rc \in {9999, 10002}
    THEN updateStatus(js, id, "failed", MsgStatus, Null)
    ELSE IF rc = CodeAccepted /\ ds = StatusProcessing
      THEN updateStatus(js, id, "pending", MsgData, ProgressData)
      ELSE js

\* the status table whose processing branch reports the top-level message and
\* no progress
StatusWriteTopMsg(js, id, rc, ds) ==
  IF rc \in CodesRejected
    THEN updateStatus(js, id, "failed", MsgStatus, Null)
    ELSE IF rc = CodeAccepted /\ ds = StatusProcessing
      THEN updateStatus(js, id, "pending", MsgStatus, Null)
      ELSE IF rc = CodeAccepted /\ ds = StatusFailed
        THEN updateStatus(js, id, "failed", MsgData, Null)
        ELSE js

\* the status table that fails the job on every response it does not know
StatusWriteElseFails(js, id, rc, ds) ==
  IF rc \in CodesRejected
    THEN updateStatus(js, id, "failed", MsgStatus, Null)
    ELSE IF rc = CodeAccepted /\ ds = StatusProcessing
      THEN updateStatus(js, id, "pending", MsgData, ProgressData)
      ELSE updateStatus(js, id, "failed", MsgData, Null)

\* video.js:237-246, 266-268: the branches of the status table that write at once
StatusWrite(js, id, rc, ds) ==
  IF rc \in CodesRejected
    THEN updateStatus(js, id, "failed", MsgStatus, Null)
    ELSE IF rc = CodeAccepted /\ ds = StatusProcessing
      THEN updateStatus(js, id, "pending", MsgData, ProgressData)
      ELSE IF rc = CodeAccepted /\ ds = StatusFailed
        THEN updateStatus(js, id, "failed", MsgData, Null)
        ELSE js

\* video.js:257-264
SuccessWrite(js, id, duration) ==
  update(js, id, [status |-> "success", message |-> MsgData, progress |-> ProgressData,
                  file_path |-> ResultPath, duration |-> duration])

\* getVideoStatus resolved with {code: rc, data: {status: ds}}, data present:
\* video.js:237-274
StatusResolved(i, rc, ds) ==
  /\ i \in 1..Len(polls) /\ polls[i].stage = "status"
  /\ LET p == polls[i]
     IN IF rc = CodeAccepted /\ ds = StatusDone /\ ~isDev
          THEN \* await getVideoDuration(resultPath)
               /\ polls' = [polls EXCEPT ![i].stage = "duration"]
               /\ UNCHANGED <<jobs, timers, changed>>
          ELSE /\ jobs' = IF rc = CodeAccepted /\ ds = StatusDone
                            THEN SuccessWrite(jobs, p.id, DevDuration)
                            ELSE StatusWrite(jobs, p.id, rc, ds)
               /\ polls' = Remove(polls, i)
               /\ timers' = Rearm(timers)
               /\ changed' = changed \cup StatusChanged(jobs, jobs')
  /\ act' = Step("StatusResolved", polls[i].id, rc, ds)
  /\ queue' = StillWaiting(queue, jobs')
  /\ UNCHANGED <<isDev, synths, ncalls, sent, xfer, srv, ipc>>

\* getVideoStatus rejected (rc = 0), or resolved with code 10000 and no data
\* field (statusRes.data.status on undefined, video.js:240): loopPending
\* rejects before it reaches video.js:271
StatusThrew(i, rc) ==
  /\ i \in 1..Len(polls) /\ polls[i].stage = "status"
  /\ polls' = Remove(polls, i)
  /\ act' = Step("StatusThrew", polls[i].id, rc, 0)
  /\ UNCHANGED <<jobs, isDev, synths, ncalls, timers, changed, sent, queue, xfer, srv, ipc>>

\* getVideoDuration resolved: video.js:257-274
DurationDone(i) ==
  /\ i \in 1..Len(polls) /\ polls[i].stage = "duration"
  /\ jobs' = SuccessWrite(jobs, polls[i].id, ProbedDuration)
  /\ polls' = Remove(polls, i)
  /\ timers' = Rearm(timers)
  /\ changed' = changed \cup StatusChanged(jobs, jobs')
  /\ act' = Step("DurationDone", polls[i].id, CodeAccepted, StatusDone)
  /\ queue' = StillWaiting(queue, jobs')
  /\ UNCHANGED <<isDev, synths, ncalls, sent, xfer, srv, ipc>>

\* getVideoDuration rejected: loopPending rejects at video.js:254
DurationThrew(i) ==
  /\ i \in 1..Len(polls) /\ polls[i].stage = "duration"
  /\ polls' = Remove(polls, i)
  /\ act' = Step("DurationThrew", polls[i].id, CodeAccepted, StatusDone)
  /\ UNCHANGED <<jobs, isDev, synths, ncalls, timers, changed, sent, queue, xfer, srv, ipc>>

\* ------------------------------------------------------------------- Next
StatusCodes == CodesRejected \cup {CodeAccepted, CodeOther}
DataStatuses == {StatusProcessing, StatusDone, StatusFailed, StatusOther}

Next ==
  \/ \E j \in JobIds : makeVideo(j)
  \/ loopPending
  \/ \E c \in synths : TtsDone(c)
  \/ \E c \in synths : TtsThrew(c)
  \/ \E c \in synths, ok \in BOOLEAN, modelFound \in BOOLEAN : UploadDone(c, ok, modelFound)
  \/ \E c \in synths, rc \in {CodeAccepted, CodeOther} : VideoDone(c, rc)
  \/ \E c \in synths : VideoThrew(c)
  \/ \E i \in 1..Len(polls), rc \in StatusCodes, ds \in DataStatuses :
       /\ rc # CodeAccepted => ds = StatusProcessing
       /\ StatusResolved(i, rc, ds)
  \/ \E i \in 1..Len(polls), rc \in {0, CodeAccepted} : StatusThrew(i, rc)
  \/ \E i \in 1..Len(polls) : DurationDone(i)
  \/ \E i \in 1..Len(polls) : DurationThrew(i)

Spec == Init /\ [][Next]_vars

\* the scheduler when every remote call resolves: speech synthesis, the video
\* request and the status query are answered, the answer to a status query
\* with code 10000 carries its data; the upload may still return failure and
\* the duration probe, which is local, may still throw
NextResolving ==
  \/ \E j \in JobIds : makeVideo(j)
  \/ loopPending
  \/ \E c \in synths : TtsDone(c)
  \/ \E c \in synths, ok \in BOOLEAN, modelFound \in BOOLEAN : UploadDone(c, ok, modelFound)
  \/ \E c \in synths, rc \in {CodeAccepted, CodeOther} : VideoDone(c, rc)
  \/ \E i \in 1..Len(polls), rc \in StatusCodes, ds \in DataStatuses :
       /\ rc # CodeAccepted => ds = StatusProcessing
       /\ StatusResolved(i, rc, ds)
  \/ \E i \in 1..Len(polls) : DurationDone(i)
  \/ \E i \in 1..Len(polls) : DurationThrew(i)

SpecResolving == Init /\ [][NextResolving]_vars

\* ===================================================================
\* api/file-transfer.js: uploadFile and downloadFile (the later definitions
\* of the file, lines 186-385).  One call runs per behaviour, its arguments
\* and the behaviour of the remote file server drawn in the initial state;
\* the local file system calls (existsSync, mkdirSync, writeFileSync) do
\* what they are asked.
\* ===================================================================

Chars == {"a", "b", "/", "\\"}

\* the path strings of at most MaxLen characters, the empty string included
Paths == UNION {[1..n -> Chars] : n \in 0..MaxLen}

\* the services a caller names: downloadFile looks up `${service}FileServer`
\* in serviceUrl (config.js), which has the keys face2face, tts,
\* face2faceFileServer and ttsFileServer
Services == {"face2face", "tts", "face2faceFileServer", "ttsFileServer"}
KnownServices == {"face2face", "tts"}

ErrNoFile == "File does not exist"                  \* file-transfer.js:195
ErrEmptyPath == "Remote path is empty or undefined" \* file-transfer.js:285
ErrService == "Invalid service"                     \* file-transfer.js:302
ErrUnknown == "Unknown error"                       \* file-transfer.js:243
ErrHttp == "Request failed with status code"        \* axios, a response outside 2xx
ErrNetwork == "Network Error"                       \* axios, no response

\* what the server's answer to the POST can be: 2xx with {success: true},
\* 2xx with {success: false}, a status outside 2xx, no answer
PostOutcomes == {"success", "refused", ErrHttp, ErrNetwork}

\* error.message of a GET that failed
GetErrors == {ErrHttp, ErrNetwork}

PostRequest == <<"file", "category">>
RemoteFilePath == "category/assigned"   \* response.data.filePath
Absent == "absent"                      \* the destination file does not exist
OldContent == "old content"             \* the destination file as it was before the call
Body == "response.data"                 \* the body of a successful GET

Success(value) == [success |-> TRUE, error |-> Null, value |-> value]
Failure(error) == [success |-> FALSE, error |-> error, value |-> Null]
NoResult == [success |-> FALSE, error |-> Null, value |-> Null]

\* remotePath.replace(/\\/g, '/'): file-transfer.js:312
replaceBackslashes(p) == [i \in 1..Len(p) |-> IF p[i] = "\\" THEN "/" ELSE p[i]]

\* the separators of path.basename: '/' on POSIX, '/' and '\' on Windows
Separators(win) == IF win THEN {"/", "\\"} ELSE {"/"}

\* p without its trailing separators
RECURSIVE StripTrailing(_, _)
StripTrailing(p, win) ==
  IF p # <<>> /\ p[Len(p)] \in Separators(win)
    THEN StripTrailing(SubSeq(p, 1, Len(p) - 1), win)
    ELSE p

\* path.basename(remotePath): file-transfer.js:313
basename(p, win) ==
  LET q == StripTrailing(p, win)
      seps == {i \in 1..Len(q) : q[i] \in Separators(win)}
      last == IF seps = {} THEN 0 ELSE CHOOSE i \in seps : \A j \in seps : j <= i
  IN SubSeq(q, last + 1, Len(q))

\* the variations tried basename first
pathVariationsBasenameFirst(remotePath, win) ==
  <<basename(remotePath, win), remotePath, replaceBackslashes(remotePath)>>

\* file-transfer.js:310-314
pathVariations(remotePath, win) ==
  <<remotePath, replaceBackslashes(remotePath), basename(remotePath, win)>>

\* uploadFile without the existence check: the request is made at once
UploadStartNoCheck(x) ==
  [x EXCEPT !.pc = "await", !.reqs = Append(@, PostRequest)]

\* file-transfer.js:186-227: uploadFile up to its return at 193 or its await
\* at 217
UploadStart(x) ==
  IF ~x.exists
    THEN [x EXCEPT !.pc = "returned", !.result = Failure(ErrNoFile)]
    ELSE [x EXCEPT !.pc = "await", !.reqs = Append(@, PostRequest)]

\* uploadFile sending the request once more after a failure
UploadReturnRetry(x, outcome) ==
  IF outcome = "success"
    THEN [x EXCEPT !.pc = "returned", !.result = Success(RemoteFilePath)]
    ELSE IF Len(x.reqs) < 2
      THEN [x EXCEPT !.reqs = Append(@, PostRequest)]
      ELSE [x EXCEPT !.pc = "returned", !.result = Failure(ErrUnknown)]

\* file-transfer.js:229-266: uploadFile after axios.post settled
UploadReturn(x, outcome) ==
  IF outcome = "success"
    THEN [x EXCEPT !.pc = "returned", !.result = Success(RemoteFilePath)]
    ELSE IF outcome = "refused"
      THEN [x EXCEPT !.pc = "returned", !.result = Failure(ErrUnknown)]
      ELSE [x EXCEPT !.pc = "returned", !.result = Failure(outcome)]

\* file-transfer.js:276-329: downloadFile up to a return or the first GET
DownloadStart(x) ==
  IF x.remotePath = <<>>
    THEN [x EXCEPT !.pc = "returned", !.result = Failure(ErrEmptyPath)]
    ELSE IF x.service \notin KnownServices
      THEN [x EXCEPT !.pc = "returned", !.dirMade = TRUE, !.result = Failure(ErrService)]
      ELSE [x EXCEPT !.pc = "await", !.dirMade = TRUE,
                     !.reqs = <<pathVariations(x.remotePath, x.win)[1]>>]

\* downloadFile writing the destination before it knows the outcome
DownloadSettledEarlyWrite(x, error) ==
  LET k == Len(x.reqs)
  IN IF k \in x.ok
       THEN [x EXCEPT !.pc = "returned", !.dest = Body, !.result = Success("localPath")]
       ELSE IF k < 3
         THEN [x EXCEPT !.errs = Append(@, error), !.dest = Body,
                        !.reqs = Append(@, pathVariations(x.remotePath, x.win)[k + 1])]
         ELSE [x EXCEPT !.pc = "returned", !.errs = Append(@, error),
                        !.result = Failure(error)]

\* downloadFile reporting the error of its first attempt
DownloadSettledFirstError(x, error) ==
  LET k == Len(x.reqs)
  IN IF k \in x.ok
       THEN [x EXCEPT !.pc = "returned", !.dest = Body, !.result = Success("localPath")]
       ELSE IF k < 3
         THEN [x EXCEPT !.errs = Append(@, error),
                        !.reqs = Append(@, pathVariations(x.remotePath, x.win)[k + 1])]
         ELSE [x EXCEPT !.pc = "returned", !.errs = Append(@, error),
                        !.result = Failure(x.errs[1])]

\* file-transfer.js:320-384: the GET of variation k settled.  If it succeeded
\* the loop breaks, the body is written and the call returns; if it failed
\* with error, the next variation is requested, or after the last one the
\* error is thrown into the catch block, which returns it
DownloadSettled(x, error) ==
  LET k == Len(x.reqs)
  IN IF k \in x.ok
       THEN [x EXCEPT !.pc = "returned", !.dest = Body, !.result = Success("localPath")]
       ELSE IF k < 3
         THEN [x EXCEPT !.errs = Append(@, error),
                        !.reqs = Append(@, pathVariations(x.remotePath, x.win)[k + 1])]
         ELSE [x EXCEPT !.pc = "returned", !.errs = Append(@, error),
                        !.result = Failure(error)]

\* the scheduler is not running
SchedulerIdle ==
  /\ jobs = [j \in JobIds |-> [status |-> "draft", file_path |-> Null, message |-> Null,
                               progress |-> Null, code |-> 0, duration |-> 0,
                               audio_path |-> Null]]
  /\ isDev = FALSE /\ synths = {} /\ ncalls = 0 /\ timers = 0 /\ polls = <<>>
  /\ changed = {} /\ sent = {} /\ queue = <<>>
  /\ act = Step("init", 0, 0, 0)

\* a call of uploadFile or downloadFile is about to run.  exists: the local
\* file of uploadFile exists; ok: the variations (by position) whose GET the
\* server answers with 200; dest: the destination file of downloadFile;
\* outcome: how the POST of uploadFile settled
InitTransfer ==
  /\ SchedulerIdle
  /\ srv = NoServer
  /\ ipc = NoIpc
  /\ xfer \in [call : {"uploadFile", "downloadFile"}, pc : {"start"},
               exists : BOOLEAN, remotePath : Paths, service : Services,
               win : BOOLEAN, ok : SUBSET (1..3), dest : {Absent, OldContent},
               reqs : {<<>>}, errs : {<<>>}, result : {NoResult},
               dirMade : {FALSE}, threw : {FALSE}, outcome : {Null}]
  /\ xfer.call = "uploadFile" =>
       /\ xfer.remotePath = <<>> /\ xfer.service = "tts" /\ ~xfer.win
       /\ xfer.ok = {} /\ xfer.dest = Absent
  /\ xfer.call = "downloadFile" =>
       /\ xfer.exists
       \* no server is asked for an empty path or an unknown service
       /\ (xfer.remotePath = <<>> \/ xfer.service \notin KnownServices) => xfer.ok = {}

uploadFile ==
  /\ xfer.call = "uploadFile" /\ xfer.pc = "start"
  /\ xfer' = UploadStart(xfer)
  /\ UNCHANGED <<schedulerVars, srv, ipc>>

uploadSettled(outcome) ==
  /\ xfer.call = "uploadFile" /\ xfer.pc = "await"
  /\ xfer' = [UploadReturn(xfer, outcome) EXCEPT !.outcome = outcome]
  /\ UNCHANGED <<schedulerVars, srv, ipc>>

downloadFile ==
  /\ xfer.call = "downloadFile" /\ xfer.pc = "start"
  /\ xfer' = DownloadStart(xfer)
  /\ UNCHANGED <<schedulerVars, srv, ipc>>

downloadSettled(error) ==
  /\ xfer.call = "downloadFile" /\ xfer.pc = "await"
  /\ xfer' = DownloadSettled(xfer, error)
  /\ UNCHANGED <<schedulerVars, srv, ipc>>

NextTransfer ==
  \/ uploadFile
  \/ \E outcome \in PostOutcomes : uploadSettled(outcome)
  \/ downloadFile
  \/ \E error \in GetErrors : downloadSettled(error)

SpecTransfer == InitTransfer /\ [][NextTransfer]_vars

\* ===================================================================
\* server/file-server.js: createFileServer, and the stand-alone file server
\* shipped with api/file-transfer.js.  A path is the sequence of its
\* segments in the separator of the server's platform; the file system is
\* the set of the absolute paths of its files, a directory being there when
\* a file lies below it.
\* ===================================================================

\* tempDir (dataDir of the stand-alone server): two directories below the top
tempDir == <<"srv", "data">>

\* file-server.js:155
commonCategories == <<"audio", "model", "origin_audio", "temp", "default">>

\* the files that may be there when the server starts: three named x inside
\* the root (one more makes audio/x a directory) and one outside it
SomeFiles ==
  {tempDir \o <<"x">>, tempDir \o <<"model", "x">>, tempDir \o <<"c", "x">>,
   tempDir \o <<"audio", "x", "x">>, <<"srv", "x">>}

\* the segments and the paths of download requests
Segments == {"x", "c", ".."}
RequestPaths == UNION {[1..n -> Segments] : n \in 0..MaxLen}

\* the category field and the orders of the parts of an upload request
Categories == {"model"}
PartOrders == {<<"file">>, <<"category", "file">>, <<"file", "category">>, <<"category">>}

\* the names uuidv4 hands out, by upload
AssignedNames == <<"u1", "u2">>

IsPrefix(p, q) == Len(p) <= Len(q) /\ SubSeq(q, 1, Len(p)) = p

\* p lies inside the directory dir
Inside(dir, p) == Len(p) > Len(dir) /\ IsPrefix(dir, p)

\* fs.existsSync: true of files and of directories
existsSync(files, p) == p \in files \/ IsPrefix(p, tempDir) \/ \E f \in files : Inside(p, f)

\* path.normalize and path.join resolve .. against the segment before it; a
\* relative path keeps the .. it cannot resolve, an absolute path drops them
RECURSIVE Collapse(_, _, _)
Collapse(acc, rest, abs) ==
  IF rest = <<>> THEN acc
  ELSE IF Head(rest) # ".." THEN Collapse(Append(acc, Head(rest)), Tail(rest), abs)
  ELSE IF acc # <<>> /\ acc[Len(acc)] # ".."
    THEN Collapse(SubSeq(acc, 1, Len(acc) - 1), Tail(rest), abs)
  ELSE IF abs THEN Collapse(acc, Tail(rest), abs)
  ELSE Collapse(Append(acc, ".."), Tail(rest), abs)

normalize(p) == Collapse(<<>>, p, FALSE)

\* path.join(dir, p) for an absolute dir
join(dir, p) == Collapse(<<>>, dir \o p, TRUE)

\* file-server.js:117: path.normalize(filePath).replace(/^\.\.\//, '').  The
\* pattern has no g flag and wants a slash: it removes one leading ../, and
\* none on Windows, where normalize has turned the slashes into backslashes
normalizedPath(filePath, win) ==
  LET n == normalize(filePath)
  IN IF ~win /\ Len(n) > 1 /\ n[1] = ".." THEN Tail(n) ELSE n

\* file-server.js:120,153: normalizedPath.split('/').length === 1, which on
\* Windows holds of every path
OnePart(np, win) == win \/ Len(np) <= 1

\* file-server.js:158-168: the first category in which the path exists
RECURSIVE inCategory(_, _, _)
inCategory(files, np, cats) ==
  IF cats = <<>> THEN <<>>
  ELSE IF existsSync(files, join(tempDir, <<Head(cats)>> \o np))
    THEN join(tempDir, <<Head(cats)>> \o np)
    ELSE inCategory(files, np, Tail(cats))

\* file-server.js:174-189: findFile returns the first file of that name its
\* depth-first walk meets; readdirSync fixes no order, so any file of that
\* name below the root can be the one
findFile(files, np) ==
  {f \in files : /\ Inside(tempDir, f)
                 /\ Len(np) = 1 /\ f[Len(f)] = np[1]}

\* the resolution looking at the path as given first
fullPathDirectFirst(files, filePath, win) ==
  LET np == normalizedPath(filePath, win)
      direct == join(tempDir, np)
      cat == inCategory(files, np, commonCategories)
      found == findFile(files, np)
  IN IF existsSync(files, direct) \/ ~OnePart(np, win) THEN {direct}
     ELSE IF cat # <<>> THEN {cat}
     ELSE IF found # {} THEN found
     ELSE {direct}

\* file-server.js:116-204: the paths fullPath can be
fullPath(files, filePath, win) ==
  LET np == normalizedPath(filePath, win)
      cat == inCategory(files, np, commonCategories)
      found == findFile(files, np)
  IN IF ~OnePart(np, win) THEN {join(tempDir, np)}
     ELSE IF cat # <<>> THEN {cat}
     ELSE IF found # {} THEN found
     ELSE {join(tempDir, np)}

\* file-transfer.js:472: path.join(dataDir, filePath) of the stand-alone server
standaloneFullPath(files, filePath) == {join(tempDir, filePath)}

NoFile == <<>>

Response(kind, parts, category, path, status, file) ==
  [kind |-> kind, parts |-> parts, category |-> category, path |-> path,
   status |-> status, file |-> file]

\* file-server.js:99-239 (file-transfer.js:460-488): the answer to
\* GET /file/download?path=filePath when fullPath is full.  res.download
\* sends a file and nothing for a directory
Download(s, filePath, full) ==
  LET resp == IF filePath = <<>> THEN Response("download", <<>>, "", filePath, 400, NoFile)
              ELSE IF full \in s.files
                THEN Response("download", <<>>, "", filePath, 200, full)
                ELSE Response("download", <<>>, "", filePath, 404, NoFile)
  IN [s EXCEPT !.resp = resp]

\* the category multer's destination callback reads when the file part
\* arrives: req.body holds the fields that came before the file
destinationCategory(parts, category) ==
  IF parts = <<"category", "file">> THEN category ELSE "default"

\* file-server.js:40-96: POST /file/upload with the parts in this order
Upload(s, parts, category) ==
  IF \A i \in 1..Len(parts) : parts[i] # "file"
    THEN [s EXCEPT !.resp = Response("upload", parts, category, <<>>, 400, NoFile)]
    ELSE LET filename == AssignedNames[s.n + 1]
             stored == tempDir \o <<destinationCategory(parts, category), filename>>
             cat == IF \E i \in 1..Len(parts) : parts[i] = "category"
                      THEN category ELSE "default"
         IN [s EXCEPT !.n = @ + 1,
                      !.files = @ \cup {stored},
                      !.uploaded = @ \cup {[filePath |-> <<cat, filename>>, file |-> stored]},
                      !.resp = Response("upload", parts, category, <<cat, filename>>, 200, stored)]

\* a file server has been created over some files
InitServer ==
  /\ SchedulerIdle
  /\ xfer = NoCall
  /\ ipc = NoIpc
  /\ srv \in [impl : {"file-server", "standalone"}, win : BOOLEAN,
              files : SUBSET SomeFiles, n : {0}, uploaded : {{}},
              resp : {Response("none", <<>>, "", <<>>, 0, NoFile)}]

fileUpload(parts, category) ==
  /\ srv.n < MaxUploads
  /\ srv' = Upload(srv, parts, category)
  /\ UNCHANGED <<schedulerVars, xfer, ipc>>

fileDownload(filePath) ==
  /\ srv.impl = "file-server"
  /\ \E full \in fullPath(srv.files, filePath, srv.win) :
       srv' = Download(srv, filePath, full)
  /\ UNCHANGED <<schedulerVars, xfer, ipc>>

standaloneDownload(filePath) ==
  /\ srv.impl = "standalone"
  /\ \E full \in standaloneFullPath(srv.files, filePath) :
       srv' = Download(srv, filePath, full)
  /\ UNCHANGED <<schedulerVars, xfer, ipc>>

\* the paths a client asks for: any short path, and what an upload answered
Asked == RequestPaths \cup {u.filePath : u \in srv.uploaded}

NextServer ==
  \/ \E parts \in PartOrders, category \in Categories : fileUpload(parts, category)
  \/ \E filePath \in Asked : fileDownload(filePath)
  \/ \E filePath \in Asked : standaloneDownload(filePath)

SpecServer == InitServer /\ [][NextServer]_vars

\* ===================================================================
\* service/video.js: page, findVideo and exportVideo.  A file path is the
\* sequence of its segments; the local file system is the set of the
\* absolute paths of its files.
\* ===================================================================

\* assetPath.model
assetPathModel == <<"userData", "temp", "face2face">>

VideoIds == 1..NumVideos

\* the values of video.file_path: none, a local name, remote paths
FilePaths == {<<>>, <<"a.mp4">>, <<"c", "a.mp4">>, <<"c", "b.mp4">>}

\* video.js:44: video.file_path && video.file_path.includes('/')
isRemote(file_path) == Len(file_path) > 1

\* video.js:46: path.join(assetPath.model, path.basename(video.file_path))
localFilePath(file_path) == join(assetPathModel, <<file_path[Len(file_path)]>>)

\* video.js:44-67: the file_path of processedVideo
processedVideo(file_path) ==
  IF isRemote(file_path) THEN localFilePath(file_path)
  ELSE IF file_path # <<>> THEN join(assetPathModel, file_path)
  ELSE <<>>

\* what a downloadFile call returns to its caller: success, the local file
\* written, or failure with one of its errors
DownloadOutcomes == {"success", ErrHttp, ErrService}

NoHandler == [name |-> "none", sel |-> {}, waiting |-> {}, failed |-> FALSE]

Return(name, sel, threw, failed, list) ==
  [name |-> name, sel |-> sel, threw |-> threw, failed |-> failed, list |-> list]

\* the list page returns, the record findVideo returns
Processed(s, sel) == [v \in sel |-> processedVideo(s.videos[v])]

\* the records of sel whose file has to be downloaded
Missing(s, sel) ==
  {v \in sel : isRemote(s.videos[v]) /\ localFilePath(s.videos[v]) \notin s.files}

\* video.js:30-117: page or findVideo, up to its awaits
Listing(s, name, sel) ==
  IF Missing(s, sel) = {}
    THEN [s EXCEPT !.started = @ + 1, !.done = @ + 1,
                   !.ret = Return(name, sel, FALSE, FALSE, Processed(s, sel))]
    ELSE [s EXCEPT !.started = @ + 1,
                   !.call = [name |-> name, sel |-> sel, waiting |-> Missing(s, sel),
                             failed |-> FALSE]]

\* video.js:360: fs.copyFileSync(filePath, outputPath), which throws when
\* filePath is not there
copyFileSync(s, videoId, failed, filePath) ==
  IF filePath \in s.files
    THEN [s EXCEPT !.done = @ + 1, !.call = NoHandler, !.out = filePath,
                   !.ret = Return("exportVideo", {videoId}, FALSE, failed, <<>>)]
    ELSE [s EXCEPT !.done = @ + 1, !.call = NoHandler,
                   !.ret = Return("exportVideo", {videoId}, TRUE, failed, <<>>)]

\* video.js:328-361: exportVideo, up to its await.  path.join throws on a
\* file_path that is null
Export(s, videoId) ==
  LET file_path == s.videos[videoId]
      t == [s EXCEPT !.started = @ + 1]
  IN
  IF file_path = <<>>
    THEN [t EXCEPT !.done = @ + 1,
                   !.ret = Return("exportVideo", {videoId}, TRUE, FALSE, <<>>)]
  ELSE IF ~isRemote(file_path)
    THEN copyFileSync(t, videoId, FALSE, join(assetPathModel, file_path))
  ELSE IF localFilePath(file_path) \in s.files
    THEN copyFileSync(t, videoId, FALSE, localFilePath(file_path))
  ELSE [t EXCEPT !.call = [name |-> "exportVideo", sel |-> {videoId},
                           waiting |-> {videoId}, failed |-> FALSE]]

\* exportVideo that writes the output whether or not the download succeeded
DownloadedExportGoesOn(s, v, outcome) ==
  LET local == localFilePath(s.videos[v])
      t == [s EXCEPT !.files = IF outcome = "success" THEN @ \cup {local} ELSE @,
                     !.call.waiting = @ \ {v},
                     !.call.failed = @ \/ outcome # "success"]
  IN IF t.call.waiting # {} THEN t
     ELSE IF t.call.name = "exportVideo"
       THEN [t EXCEPT !.done = @ + 1, !.call = NoHandler, !.out = local,
                      !.ret = Return("exportVideo", {v}, FALSE, t.call.failed, <<>>)]
     ELSE [t EXCEPT !.done = @ + 1, !.call = NoHandler,
                    !.ret = Return(t.call.name, t.call.sel, FALSE, t.call.failed,
                                   Processed(t, t.call.sel))]

\* video.js:48-60, 94-106, 338-352: the downloadFile call for record v has
\* returned.  page and findVideo log a failure and go on; exportVideo throws
\* it.  page returns once the downloads of all its records have returned.
Downloaded(s, v, outcome) ==
  LET local == localFilePath(s.videos[v])
      t == [s EXCEPT !.files = IF outcome = "success" THEN @ \cup {local} ELSE @,
                     !.call.waiting = @ \ {v},
                     !.call.failed = @ \/ outcome # "success"]
  IN IF t.call.waiting # {} THEN t
     ELSE IF t.call.name = "exportVideo"
       THEN IF outcome = "success"
              THEN copyFileSync(t, v, FALSE, local)
              ELSE [t EXCEPT !.done = @ + 1, !.call = NoHandler,
                             !.ret = Return("exportVideo", {v}, TRUE, TRUE, <<>>)]
     ELSE [t EXCEPT !.done = @ + 1, !.call = NoHandler,
                    !.ret = Return(t.call.name, t.call.sel, FALSE, t.call.failed,
                                   Processed(t, t.call.sel))]

\* the records, some of them with a result, and the local files
InitIpc ==
  /\ SchedulerIdle
  /\ xfer = NoCall
  /\ srv = NoServer
  /\ ipc \in [handlers : {"video"}, videos : [VideoIds -> FilePaths],
              files : SUBSET {join(assetPathModel, <<"a.mp4">>)},
              out : {<<>>}, call : {NoHandler}, started : {0}, done : {0},
              ret : {Return("none", {}, FALSE, FALSE, <<>>)}]

Idle == ipc.call = NoHandler /\ ipc.started < MaxCalls

page(sel) ==
  /\ Idle
  /\ ipc' = Listing(ipc, "page", sel)
  /\ UNCHANGED <<schedulerVars, xfer, srv>>

findVideo(videoId) ==
  /\ Idle
  /\ ipc' = Listing(ipc, "findVideo", {videoId})
  /\ UNCHANGED <<schedulerVars, xfer, srv>>

exportVideo(videoId) ==
  /\ Idle
  /\ ipc' = Export(ipc, videoId)
  /\ UNCHANGED <<schedulerVars, xfer, srv>>

downloadReturned(v, outcome) ==
  /\ v \in ipc.call.waiting
  /\ ipc' = Downloaded(ipc, v, outcome)
  /\ UNCHANGED <<schedulerVars, xfer, srv>>

NextIpc ==
  \/ \E sel \in SUBSET VideoIds : page(sel)
  \/ \E videoId \in VideoIds : findVideo(videoId)
  \/ \E videoId \in VideoIds : exportVideo(videoId)
  \/ \E v \in VideoIds, outcome \in DownloadOutcomes : downloadReturned(v, outcome)

SpecIpc == InitIpc /\ [][NextIpc]_vars

\* ===================================================================
\* service/model.js: addModel, with train of service/voice.js.  One call
\* runs at a time; the model and voice tables are the sequence of the
\* voiceId of each model row and the number of voice rows (their ids are
\* 1, 2, ...).
\* ===================================================================

\* what train returns when preprocessAndTran reports a failure (voice.js:46),
\* as Number() makes it a column value (part_000:234)
NoVoice == 0

\* the awaits of addModel in their order (part_000:164, 177, 201, 215);
\* after the last one the row is inserted
AfterStage ==
  [extractAudio |-> "uploadVideo", uploadVideo |-> "uploadAudio", uploadAudio |-> "train"]

\* how an await ends: with what was asked for; with a failure returned
\* ({success: false} of uploadFile, false of train); with a rejected promise
AwaitOutcomes == {"ok", "failed", "threw"}

AddModelThrows(s) == [s EXCEPT !.stage = "idle", !.done = @ + 1, !.ret = "threw"]

\* part_000:139-243: the await at s.stage has ended.  A rejected promise and
\* an upload that returned {success: false} make addModel throw (164,
\* 178-181, 202-205); what train returned is not looked at (212-216), so
\* after train returned false (voice.js:45-46) the row is inserted with
\* Number(false) as its voice id
AddModelStep(s, outcome) ==
  IF s.stage # "train"
    THEN IF outcome = "ok" THEN [s EXCEPT !.stage = AfterStage[s.stage]]
         ELSE AddModelThrows(s)
    ELSE IF outcome = "threw" THEN AddModelThrows(s)
    ELSE IF outcome = "ok"
      THEN [s EXCEPT !.stage = "idle", !.done = @ + 1, !.ret = "trained",
                     !.voices = @ + 1, !.models = Append(@, s.voices + 1)]
      ELSE [s EXCEPT !.stage = "idle", !.done = @ + 1, !.ret = "train failed",
                     !.models = Append(@, NoVoice)]

\* some voices may have been trained before
InitModel ==
  /\ SchedulerIdle
  /\ xfer = NoCall
  /\ srv = NoServer
  /\ ipc \in [handlers : {"model"}, voices : 0..1, models : {<<>>},
              stage : {"idle"}, started : {0}, done : {0}, ret : {"none"}]

\* part_000:139-164: addModel copies the video and awaits extractAudio
addModel ==
  /\ ipc.stage = "idle" /\ ipc.started < MaxCalls
  /\ ipc' = [ipc EXCEPT !.stage = "extractAudio", !.started = @ + 1]
  /\ UNCHANGED <<schedulerVars, xfer, srv>>

addModelResumed(outcome) ==
  /\ ipc.stage # "idle"
  /\ ipc' = AddModelStep(ipc, outcome)
  /\ UNCHANGED <<schedulerVars, xfer, srv>>

NextModel ==
  \/ addModel
  \/ \E outcome \in AwaitOutcomes : addModelResumed(outcome)

SpecModel == InitModel /\ [][NextModel]_vars

\* ===================================================================
\* Claims
\* ===================================================================

Pending == {j \in JobIds : jobs[j].status = "pending"}

\* the synthesisVideo call c returns in this step
Returns(c) == c \in synths /\ \A d \in synths' : d.cid # c.cid

\* the synthesisVideo call started in this step returns in it (it threw
\* before its first await)
ReturnsAtOnce == ncalls' # ncalls /\ \A d \in synths' : d.cid # ncalls'

CycleStart == {"loopPending", "synthesisNext", "getVideoStatus"}
CycleResume == {"StatusResolved", "StatusThrew", "DurationDone", "DurationThrew"}

\* C1: whenever a synthesisVideo call returns, whatever its reads and remote
\* calls did, the job it was called for is pending or failed, and it is
\* pending only if the call's makeVideoApi request returned code 10000.
C1_SynthesizeEndsPendingOrFailed ==
  [][/\ \A c \in synths : Returns(c) =>
          /\ jobs'[c.id].status \in {"pending", "failed"}
          /\ jobs'[c.id].status = "pending" =>
               c.stage = "video" /\ act'.name = "VideoDone" /\ act'.rc = CodeAccepted
     /\ ReturnsAtOnce => jobs'[act'.id].status = "failed"]_vars

\* a call has just returned after the remote accepted its request
C1_Witness ==
  /\ act.name = "VideoDone" /\ act.rc = CodeAccepted
  /\ jobs[act.id].status = "pending" /\ jobs[act.id].message = MsgResult

\* C2 (as claimed): after every cycle a next one is scheduled, so at any time
\* a cycle is awaiting its remote call or a re-arm timer is outstanding.
C2_NextCycleScheduled == timers + Len(polls) >= 1

\* C3 (as claimed): at most one job has status pending.
C3_AtMostOnePending == Cardinality(Pending) <= 1

\* C4 (as claimed): no status query is outstanding while a remote call of a
\* synthesisVideo started by the scheduler is unresolved.
C4_OneRemoteCall ==
  ~(synths # {} /\ \E i \in 1..Len(polls) : polls[i].stage = "status")

\* C5 (as claimed): a job that is success or failed keeps its status in every
\* step other than makeVideo.
C5_TerminalStays ==
  [][\A j \in JobIds :
       (jobs[j].status \in Terminal /\ act'.name # "makeVideo")
         => jobs'[j].status = jobs[j].status]_vars

\* C6: no step of a loopPending invocation, neither its start (the promotion
\* included) nor its resumption after the status query or the duration
\* probe, changes any field of a job that was success or failed when that
\* invocation started.
C6_CycleLeavesTerminalJobs ==
  [][/\ act'.name \in CycleStart =>
          \A j \in JobIds : jobs[j].status \in Terminal => jobs'[j] = jobs[j]
     /\ act'.name \in CycleResume =>
          \A i \in 1..Len(polls) : polls[i].id = act'.id =>
             \A j \in polls[i].term : jobs'[j] = jobs[j]]_vars

\* a cycle that started with a terminal job has handled a status response
\* and is awaiting the duration probe, the terminal job still in the store
C6_Witness ==
  \E i \in 1..Len(polls) :
    /\ polls[i].stage = "duration" /\ polls[i].term # {}
    /\ act.name = "StatusResolved"

\* C7: a suspended loopPending invocation and an outstanding re-arm timer
\* never coexist and there is never more than one of either, so there is at
\* most one outstanding status query and no cycle starts while it is
\* unresolved.
C7_SingleCycle == timers + Len(polls) <= 1

\* a status query is outstanding and no timer is armed
C7_Witness == Len(polls) = 1 /\ polls[1].stage = "status" /\ timers = 0

\* C8 (as claimed): between two cycle starts the scheduler (its cycles and
\* the synthesisVideo calls it started) changes the status of at most one job.
C8_OneTransitionPerCycle == Cardinality(changed) <= 1

\* C9: when the status query of the polled job returns 9999, 10002 or 10003,
\* or 10000 with data.status 3, the cycle sets that job to failed with the
\* remote message (statusRes.msg, resp. statusRes.data.msg) and leaves its
\* result path as it was, which is null.
C9_RemoteFailureFails ==
  [][(/\ act'.name = "StatusResolved"
      /\ \/ act'.rc \in CodesRejected
         \/ act'.rc = CodeAccepted /\ act'.ds = StatusFailed)
       => /\ \E i \in 1..Len(polls) : polls[i].id = act'.id /\ polls[i].stage = "status"
          /\ jobs'[act'.id].status = "failed"
          /\ jobs'[act'.id].message =
               (IF act'.rc \in CodesRejected THEN MsgStatus ELSE MsgData)
          /\ jobs'[act'.id].file_path = jobs[act'.id].file_path
          /\ jobs'[act'.id].file_path = Null]_vars

\* a status response 10003 has just failed the polled job
C9_Witness ==
  /\ act.name = "StatusResolved" /\ act.rc = 10003
  /\ jobs[act.id].status = "failed" /\ jobs[act.id].message = MsgStatus

\* C10 (as claimed): a cycle whose status query returned 10000 with
\* data.status 2 ends with the polled job success, its result path the remote
\* result and a positive duration.
C10_CompletionSucceeds ==
  [][(/\ act'.name \in CycleResume
      /\ act'.rc = CodeAccepted /\ act'.ds = StatusDone
      /\ Len(polls') < Len(polls))
       => /\ jobs'[act'.id].status = "success"
          /\ jobs'[act'.id].file_path = ResultPath
          /\ jobs'[act'.id].duration > 0]_vars

\* C11: when the status query of the polled job returns 10000 with
\* data.status 1, the cycle writes status pending, message data.msg and
\* progress data.progress on that job and leaves its result path, duration,
\* remote job code and audio path as they were.
C11_ProcessingKeepsPending ==
  [][(/\ act'.name = "StatusResolved"
      /\ act'.rc = CodeAccepted /\ act'.ds = StatusProcessing)
       => /\ \E i \in 1..Len(polls) : polls[i].id = act'.id /\ polls[i].stage = "status"
          /\ jobs'[act'.id].status = "pending"
          /\ jobs'[act'.id].message = MsgData
          /\ jobs'[act'.id].progress = ProgressData
          /\ jobs'[act'.id].file_path = jobs[act'.id].file_path
          /\ jobs'[act'.id].duration = jobs[act'.id].duration
          /\ jobs'[act'.id].code = jobs[act'.id].code
          /\ jobs'[act'.id].audio_path = jobs[act'.id].audio_path]_vars

\* a processing response has just been handled for a job that carries a
\* remote job code and an audio path
C11_Witness ==
  /\ act.name = "StatusResolved" /\ act.rc = CodeAccepted /\ act.ds = StatusProcessing
  /\ jobs[act.id].status = "pending" /\ jobs[act.id].message = MsgData
  /\ jobs[act.id].progress = ProgressData
  /\ jobs[act.id].code # 0 /\ jobs[act.id].audio_path # Null

\* C12 (as claimed): in every state a job whose result path is non-null has
\* status success: makeVideo, synthesisVideo and every write of failed leave
\* no result path on a job that is not success.
C12_ResultOnlyOnSuccess ==
  \A j \in JobIds : jobs[j].file_path # Null => jobs[j].status = "success"

\* C13 (as claimed): when makeVideoApi returns a response to a synthesisVideo
\* call, the job ends pending if and only if the response's code is 10000 and
\* failed with the response's msg otherwise, and in both cases the stored
\* code is the code sent and the stored audio_path is the audio_url sent.
C13_StoresWhatWasSent ==
  [][\A c \in synths :
       (act'.name = "VideoDone" /\ Returns(c))
         => /\ jobs'[c.id].status = (IF act'.rc = CodeAccepted THEN "pending" ELSE "failed")
            /\ act'.rc # CodeAccepted => jobs'[c.id].message = MsgResultMsg
            /\ jobs'[c.id].code = c.code
            /\ jobs'[c.id].audio_path = c.audio_url]_vars

\* C13: when makeVideoApi returns a response to a synthesisVideo call, the
\* job ends pending if and only if the response's code is 10000 and failed
\* with the response's msg otherwise; in both cases the stored code is the
\* code sent and the stored audio_path is the audio path the call resolved,
\* which is the audio_url sent in production mode, while in development mode
\* the request carried 'test.wav'.
C13_StoresCodeAndResolvedAudio ==
  [][\A c \in synths :
       (act'.name = "VideoDone" /\ Returns(c))
         => /\ c.stage = "video"
            /\ jobs'[c.id].status = (IF act'.rc = CodeAccepted THEN "pending" ELSE "failed")
            /\ act'.rc # CodeAccepted => jobs'[c.id].message = MsgResultMsg
            /\ jobs'[c.id].code = c.code
            /\ jobs'[c.id].audio_path = c.audioPath
            /\ c.audio_url = (IF isDev THEN TestAudio ELSE jobs'[c.id].audio_path)]_vars

\* a request was refused by the remote and the job is failed with the
\* response's msg, the code sent and the audio path resolved
C13_Witness ==
  /\ act.name = "VideoDone" /\ act.rc = CodeOther
  /\ jobs[act.id].status = "failed" /\ jobs[act.id].message = MsgResultMsg
  /\ jobs[act.id].code # 0 /\ jobs[act.id].audio_path # Null

\* the makeVideoApi requests made in this step
NewRequests ==
  {d \in synths' : d.stage = "video"
                   /\ \A c \in synths : c.cid = d.cid => c.stage # "video"}

\* C14: every makeVideoApi request carries a code that no earlier request
\* carried, whether of another job or of an earlier submission of the same
\* job, and that no job has stored; crypto.randomUUID() is taken to return a
\* fresh value at every call.
C14_FreshCode ==
  [][\A d \in NewRequests :
       /\ d.code \notin sent
       /\ \A j \in JobIds : jobs[j].code # d.code
       /\ \A c \in synths : c.stage = "video" => c.code # d.code]_vars

\* a job that carries the code of an earlier request is being requested
\* again, under another code
C14_Witness ==
  \E c \in synths :
    /\ c.stage = "video" /\ jobs[c.id].code # 0 /\ jobs[c.id].code # c.code
    /\ jobs[c.id].code \in sent /\ c.code \in sent

\* the synthesisVideo call started in this step, if it is still running
Started == {d \in synths' : \A c \in synths : c.cid # d.cid}

\* C15: a synthesisVideo call for a job without audio_path awaits makeAudioApi
\* first; its makeVideoApi request is made only after makeAudioApi resolved
\* (and the upload that follows it returned), and when makeAudioApi rejects
\* the call returns without ever making the request: call numbers are never
\* reused.
C15_TtsBeforeVideo ==
  [][/\ \A d \in Started :
          /\ d.cid = ncalls' /\ ncalls' = ncalls + 1 /\ act'.name = "synthesisNext"
          /\ jobs[d.id].audio_path = Null => d.stage = "tts"
     /\ \A d \in synths' : d.cid <= ncalls'
     /\ \A c \in synths, d \in synths' :
          (c.cid = d.cid /\ c.stage # d.stage) =>
             \/ c.stage = "tts" /\ d.stage = "upload" /\ act'.name = "TtsDone"
             \/ c.stage = "upload" /\ d.stage = "video" /\ act'.name = "UploadDone"
     /\ \A c \in synths :
          (act'.name = "TtsThrew" /\ Returns(c)) =>
             c.stage = "tts" /\ NewRequests = {} /\ sent' = sent /\ c.cid \notin sent]_vars

\* the request of a call for a job without audio_path has just been made,
\* after its makeAudioApi resolved and its upload returned
C15_Witness ==
  /\ act.name = "UploadDone"
  /\ \E c \in synths : /\ c.id = act.id /\ c.stage = "video" /\ c.code \in sent
                       /\ c.audioPath \in {UploadedAudio, LocalAudio}
                       /\ jobs[c.id].audio_path = Null

\* C16 (as claimed): a synthesisVideo call for a job that has an audio_path
\* makes no makeAudioApi request and no upload, and its makeVideoApi request
\* carries that audio_path as audio_url.
C16_ExplicitAudioSent ==
  [][/\ \A d \in Started :
          jobs[d.id].audio_path # Null =>
             d.stage = "video" /\ d.audio_url = jobs[d.id].audio_path
     /\ \A c \in synths, d \in synths' :
          (c.cid = d.cid /\ c.stage = "video") => d = c]_vars

\* C16: a synthesisVideo call for a job that has an audio_path makes no
\* makeAudioApi request and no upload; it resolves that audio_path unchanged
\* as the audio of the job, and its makeVideoApi request carries it as
\* audio_url in production mode and carries 'test.wav' in development mode.
C16_ExplicitAudioResolved ==
  [][/\ \A d \in Started :
          jobs[d.id].audio_path # Null =>
             /\ d.stage = "video" /\ d.audioPath = jobs[d.id].audio_path
             /\ d.audio_url = (IF isDev THEN TestAudio ELSE jobs[d.id].audio_path)
             /\ sent' = sent \cup {d.code}
     /\ \A c \in synths, d \in synths' :
          (c.cid = d.cid /\ c.stage = "video") => d = c]_vars

\* a call for a job with an audio_path has just made its request, in
\* production mode, with that path
C16_Witness ==
  /\ act.name = "synthesisNext" /\ ~isDev
  /\ \E c \in synths : /\ c.cid = ncalls /\ c.id = act.id /\ c.stage = "video"
                       /\ c.audio_url = ExplicitAudio
                       /\ jobs[c.id].audio_path = ExplicitAudio

\* C17 (as claimed): for a job without audio_path, the audio_url of the
\* makeVideoApi request and the audio_path stored on the job are the
\* remotePath the upload returned; the local file name `${uuid}.wav` is
\* never sent nor stored, whatever the upload returned.
C17_RemotePathDownstream ==
  [][/\ act'.name = "UploadDone" =>
          \A d \in NewRequests : d.audio_url = UploadedAudio
     /\ \A c \in synths :
          (act'.name = "VideoDone" /\ Returns(c))
            => /\ c.audio_url # LocalAudio
               /\ jobs'[c.id].audio_path # LocalAudio]_vars

\* C17: for a job without audio_path, the audio path the call resolves is the
\* remotePath the upload returned when the upload succeeded and the local
\* file name `${uuid}.wav` when it failed; that path is the audio_url of the
\* makeVideoApi request in production mode ('test.wav' is sent in
\* development mode) and is the audio_path stored on the job when the
\* request returns a response.
C17_RemotePathOrLocalFallback ==
  [][/\ act'.name = "UploadDone" =>
          \A d \in NewRequests :
             /\ d.audioPath = (IF act'.rc = 1 THEN UploadedAudio ELSE LocalAudio)
             /\ d.audio_url = (IF isDev THEN TestAudio ELSE d.audioPath)
     /\ \A c \in synths :
          (act'.name = "VideoDone" /\ Returns(c))
            => jobs'[c.id].audio_path = c.audioPath]_vars

\* the upload failed and the request has been made, in production mode, with
\* the local file name
C17_Witness ==
  /\ act.name = "UploadDone" /\ act.rc = 0 /\ ~isDev
  /\ \E c \in synths : /\ c.id = act.id /\ c.stage = "video"
                       /\ c.audioPath = LocalAudio /\ c.audio_url = LocalAudio

\* C18 (as claimed): makeVideo sets a draft job to waiting and changes nothing
\* else; called on a job in any other status it changes nothing.
C18_SubmitDraftOnly ==
  [][act'.name = "makeVideo" =>
       jobs' = (IF jobs[act'.id].status = "draft"
                  THEN [jobs EXCEPT ![act'.id].status = "waiting"]
                  ELSE jobs)]_vars

\* C18: makeVideo sets the job's status to waiting whatever its status was
\* (draft, waiting, pending, success or failed) and changes no other field,
\* no other job and nothing of the scheduler.
C18_SubmitSetsWaiting ==
  [][act'.name = "makeVideo" =>
       /\ jobs' = [jobs EXCEPT ![act'.id].status = "waiting"]
       /\ UNCHANGED <<synths, ncalls, timers, polls, sent>>]_vars

\* makeVideo has just been called on a job that had failed: it is waiting
\* and keeps the message of its failure
C18_Witness ==
  /\ act.name = "makeVideo"
  /\ jobs[act.id].status = "waiting" /\ jobs[act.id].message = MsgError

\* C19 (as claimed): a cycle calls synthesisVideo only if it found no pending
\* job when it started, and for one job at most; a cycle that found a pending
\* job calls synthesisVideo for none and, from its start to its end, changes
\* no job that is waiting.
C19_PromotionOnlyWhenIdle ==
  [][/\ ncalls' # ncalls =>
          act'.name = "synthesisNext" /\ Pending = {} /\ ncalls' = ncalls + 1
     /\ act'.name \in {"getVideoStatus"} \cup CycleResume =>
          /\ ncalls' = ncalls
          /\ \A j \in Waiting : jobs'[j] = jobs[j]]_vars

MissingModel ==
  \/ /\ act'.name = "UploadDone"
     /\ \E c \in synths : c.id = act'.id /\ c.stage = "upload" /\ Returns(c)
  \/ /\ act'.name = "synthesisNext" /\ ReturnsAtOnce
     /\ jobs[act'.id].audio_path # Null

Returned == xfer.pc = "returned" /\ ~xfer.threw

\* C22: uploadFile for a local path that does not exist returns
\* {success: false, error} without throwing and without making a request.
C22_MissingFileNoRequest ==
  (xfer.call = "uploadFile" /\ ~xfer.exists) =>
     /\ xfer.reqs = <<>> /\ ~xfer.threw
     /\ xfer.pc = "returned" => (~xfer.result.success /\ xfer.result.error = ErrNoFile)
     /\ xfer.pc # "await"

\* uploadFile has returned the failure for a missing file
C22_Witness ==
  /\ xfer.call = "uploadFile" /\ ~xfer.exists /\ Returned
  /\ ~xfer.result.success /\ xfer.result.error = ErrNoFile /\ xfer.reqs = <<>>

\* C23: uploadFile makes at most one request per call; when the request
\* fails (no answer, or a status outside 2xx) or the server answers
\* {success: false}, it returns {success: false, error} at once, and it
\* never throws; it returns {success: true} exactly when the server answered
\* {success: true}.
C23_OneRequestNoThrow ==
  xfer.call = "uploadFile" =>
     /\ Len(xfer.reqs) <= 1 /\ ~xfer.threw
     /\ xfer.outcome # Null =>
          /\ xfer.pc = "returned" /\ Len(xfer.reqs) = 1
          /\ xfer.result.success <=> xfer.outcome = "success"
          /\ xfer.outcome \in {ErrHttp, ErrNetwork} => xfer.result.error = xfer.outcome
          /\ xfer.outcome = "refused" => xfer.result.error = ErrUnknown

\* the one request of uploadFile got no answer and the call has returned the
\* failure
C23_Witness ==
  /\ xfer.call = "uploadFile" /\ Returned /\ xfer.outcome = ErrNetwork
  /\ Len(xfer.reqs) = 1 /\ ~xfer.result.success /\ xfer.result.error = ErrNetwork

C25_LastErrorReturned ==
  (xfer.call = "downloadFile" /\ xfer.pc = "returned" /\ xfer.reqs # <<>>
     /\ xfer.ok \cap (1..Len(xfer.reqs)) = {}) =>
       /\ ~xfer.threw
       /\ Len(xfer.reqs) = 3 /\ Len(xfer.errs) = 3
       /\ xfer.result = Failure(xfer.errs[3])

\* all three variations failed, the first and the last with different errors
C25_Witness ==
  /\ xfer.call = "downloadFile" /\ Returned /\ ~xfer.result.success
  /\ Len(xfer.errs) = 3 /\ xfer.errs[1] # xfer.errs[3]

\* C26: the destination file of a download changes only in the step in which
\* a request has completed successfully and the call returns success, the
\* file then holding the response body; a call that returns failure (every
\* variation failed, empty remote path, unknown service) leaves the
\* destination as it was, absent or with its old content.
C26_DestinationOnlyOnSuccess ==
  [][xfer.call = "downloadFile" =>
       /\ xfer'.dest # xfer.dest =>
            /\ xfer.pc = "await" /\ Len(xfer.reqs) \in xfer.ok
            /\ xfer'.pc = "returned" /\ xfer'.result.success /\ xfer'.dest = Body
       /\ (xfer'.pc = "returned" /\ ~xfer'.result.success) => xfer'.dest = xfer.dest]_vars

\* a download whose three variations failed has returned failure, the old
\* destination file still in place
C26_Witness ==
  /\ xfer.call = "downloadFile" /\ Returned /\ ~xfer.result.success
  /\ Len(xfer.reqs) = 3 /\ xfer.dest = OldContent

\* C27: whatever path a download asks for, leading or embedded ../ segments
\* included, the file the server of file-server.js serves lies inside the
\* root directory.
C27_ServedInsideRoot ==
  (srv.impl = "file-server" /\ srv.resp.kind = "download" /\ srv.resp.status = 200) =>
     Inside(tempDir, srv.resp.file)

\* the files of that name below the root
Named(name) == {f \in srv.files : Inside(tempDir, f) /\ f[Len(f)] = name}

\* C28: a download whose path has no separator is answered with a file of
\* that name whenever one exists in a known category directory or anywhere
\* else below the root, and with 404 only if there is none.
C28_BareNameFound ==
  (srv.resp.kind = "download" /\ Len(srv.resp.path) = 1 /\ srv.resp.path[1] # "..") =>
     /\ Named(srv.resp.path[1]) # {} =>
          srv.resp.status = 200 /\ srv.resp.file \in Named(srv.resp.path[1])
     /\ srv.resp.status = 404 => Named(srv.resp.path[1]) = {}

\* C29: the resolution of a download goes direct, categories, recursive
\* search: when {root}/{normalizedPath} is a file it is the file served, and
\* another file is served only when nothing exists at {root}/{normalizedPath}.
C29_DirectFirst ==
  (srv.impl = "file-server" /\ srv.resp.kind = "download" /\ srv.resp.path # <<>>) =>
     LET direct == join(tempDir, normalizedPath(srv.resp.path, srv.win))
     IN /\ direct \in srv.files => srv.resp.status = 200 /\ srv.resp.file = direct
        /\ (srv.resp.status = 200 /\ srv.resp.file # direct) =>
              ~existsSync(srv.files, direct)

\* C29 (as the code has it): when the normalized path has one part (on
\* Windows always), the file served is the path inside the first known
\* category where it exists, else a file of that name found below the root,
\* and {root}/{normalizedPath} only when neither exists; with several parts
\* it is {root}/{normalizedPath}.  The answer is 404 when the path resolved
\* to is not a file.
C29_CategoriesFirst ==
  (srv.impl = "file-server" /\ srv.resp.kind = "download" /\ srv.resp.path # <<>>) =>
     LET np == normalizedPath(srv.resp.path, srv.win)
         direct == join(tempDir, np)
         probe(i) == join(tempDir, <<commonCategories[i]>> \o np)
         cats == {i \in 1..Len(commonCategories) : existsSync(srv.files, probe(i))}
         first == CHOOSE i \in cats : \A k \in cats : i <= k
         named == IF Len(np) = 1 THEN Named(np[1]) ELSE {}
         target == IF OnePart(np, srv.win) /\ cats # {} THEN {probe(first)}
                   ELSE IF OnePart(np, srv.win) /\ named # {} THEN named
                   ELSE {direct}
     IN /\ srv.resp.status \in {200, 404}
        /\ srv.resp.status = 200 => srv.resp.file \in target
        /\ srv.resp.status = 404 => target \cap srv.files = {}

\* the file is both at the root and in a category, and a download by its
\* bare name was served the one in the category
C29_Witness ==
  /\ srv.impl = "file-server" /\ srv.resp.kind = "download" /\ srv.resp.status = 200
  /\ srv.resp.path = <<"x">>
  /\ tempDir \o <<"x">> \in srv.files
  /\ srv.resp.file = tempDir \o <<"model", "x">>

\* C30: an upload with a file part and category c stores the file as
\* {root}/c/{assignedName} and answers filePath c/{assignedName}; a later
\* download of exactly that filePath serves that stored file.
C30_RoundTrip ==
  srv.impl = "file-server" =>
     /\ (srv.resp.kind = "upload" /\ srv.resp.status = 200
           /\ \E i \in 1..Len(srv.resp.parts) : srv.resp.parts[i] = "category") =>
          /\ srv.resp.path = <<srv.resp.category, AssignedNames[srv.n]>>
          /\ srv.resp.file = tempDir \o srv.resp.path
          /\ srv.resp.file \in srv.files
     /\ srv.resp.kind = "download" =>
          \A u \in srv.uploaded :
             u.filePath = srv.resp.path => srv.resp.status = 200 /\ srv.resp.file = u.file

\* a handler call returns or throws in this step
Done(names) == ipc'.done = ipc.done + 1 /\ ipc'.ret.name \in names

\* C31: page and findVideo return every selected record, its local path
\* filled in, without throwing, also when the download of a record's file
\* has failed; exportVideo throws when the download of the job's remote file
\* has failed, and then copies nothing to the output path.
C31_ListingSurvivesExportThrows ==
  [][/\ Done({"page", "findVideo"}) =>
          /\ ~ipc'.ret.threw
          /\ DOMAIN ipc'.ret.list = ipc'.ret.sel
          /\ \A v \in ipc'.ret.sel :
               LET fp == ipc.videos[v]
               IN ipc'.ret.list[v] =
                    IF Len(fp) > 1 THEN assetPathModel \o <<fp[Len(fp)]>>
                    ELSE IF Len(fp) = 1 THEN assetPathModel \o fp
                    ELSE <<>>
     /\ (Done({"exportVideo"}) /\ ipc'.ret.failed) =>
          ipc'.ret.threw /\ ipc'.out = ipc.out]_vars

\* page has returned two records although a download failed; nothing has
\* been exported
C31_Witness ==
  /\ ipc.handlers = "video" /\ ipc.ret.name = "page" /\ ipc.ret.failed /\ ~ipc.ret.threw
  /\ Cardinality(ipc.ret.sel) = 2 /\ ipc.done = 2 /\ ipc.out = <<>>

\* C32: the step that starts a synthesisVideo call leaves the job pending,
\* with a null result path and the submitting message, its first remote call
\* made; and a cycle that starts while a synthesisVideo call is still in
\* flight finds that call's job pending and promotes no job.
C32_PendingWhileInFlight ==
  [][/\ \A d \in Started :
          /\ jobs'[d.id].status = "pending"
          /\ jobs'[d.id].file_path = Null
          /\ jobs'[d.id].message = MsgSubmitting
     /\ (act'.name \in CycleStart /\ synths # {}) =>
          /\ \A c \in synths : jobs[c.id].status = "pending"
          /\ ncalls' = ncalls]_vars

\* C34: a status query is issued only for a job whose stored code is the code
\* of its current submission: the code is not missing, and no synthesisVideo
\* call started for that job after the stored code was drawn is still in
\* flight.
C34_QueryCurrentCode ==
  [][act'.name = "getVideoStatus" =>
       /\ jobs[act'.id].code # 0
       /\ \A c \in synths : c.id = act'.id => c.cid < jobs[act'.id].code]_vars

\* C35: the scheduler starts a synthesisVideo call only when no earlier call
\* is still in flight, so at most one is in flight at any time.
C35_OneSynthesisInFlight ==
  [][ncalls' # ncalls => synths = {}]_vars

\* C36: when the status query returns a code other than 9999, 10000, 10002
\* and 10003, or code 10000 with a data.status other than 1, 2 and 3, the
\* cycle changes no field of any job, arms the timer of the next cycle and
\* ends.
C36_UnknownResponseNoWrite ==
  [][(/\ act'.name = "StatusResolved"
      /\ \/ act'.rc \notin CodesRejected \cup {CodeAccepted}
         \/ act'.rc = CodeAccepted
              /\ act'.ds \notin {StatusProcessing, StatusDone, StatusFailed})
       => /\ jobs' = jobs
          /\ timers' = timers + 1
          /\ Len(polls') = Len(polls) - 1
          /\ UNCHANGED <<synths, ncalls, sent>>]_vars

\* a response 10000 with an unknown data.status has just been handled: the
\* polled job is still pending and the timer of the next cycle is armed
C36_Witness ==
  /\ act.name = "StatusResolved" /\ act.rc = CodeAccepted /\ act.ds = StatusOther
  /\ jobs[act.id].status = "pending" /\ timers = 1

\* C37 (in finite form): when every remote call resolves, a job that is
\* waiting or pending is never left behind with no synthesisVideo call in
\* flight, no cycle suspended and no timer armed, for from there on no step
\* of the scheduler is left that could bring it to success or failed.
C37_NoJobLeftBehind ==
  ((\E j \in JobIds : jobs[j].status \in {"waiting", "pending"}) /\ synths = {}) =>
     timers + Len(polls) >= 1

\* C33: downloadFile called with a non-empty remote path and one of the keys
\* face2faceFileServer and ttsFileServer, the keys of the service URL table
\* under which uploadFile works and which every caller passes, does not
\* return before it has made at least one request.
C33_CallerKeysReachServer ==
  (/\ xfer.call = "downloadFile" /\ xfer.pc = "returned"
   /\ xfer.service \in {"face2faceFileServer", "ttsFileServer"}
   /\ xfer.remotePath # <<>>) => Len(xfer.reqs) >= 1

\* C38: addModel inserts a model row only after the video upload, the audio
\* upload and the voice training have all succeeded: the default voice id of
\* every model row is the id of a voice row, and a call whose training
\* reported failure has inserted no model row.
C38_ModelsHaveVoices ==
  [][ipc.handlers = "model" =>
       /\ \A i \in 1..Len(ipc'.models) : ipc'.models[i] \in 1..ipc'.voices
       /\ (ipc'.done # ipc.done /\ ipc'.ret = "train failed") =>
            ipc'.models = ipc.models]_vars

====
